---- MODULE Spec2Model ----
(***************************************************************************)
(* A model of pinger.py: the markdown normalizer, the section extractor,   *)
(* the two table parsers, the listing fetch orchestrator and main's run    *)
(* (fetch, snapshot load, per-section diff and notification, persist).     *)
(*                                                                         *)
(* Python str values are TLA+ strings handled character by character       *)
(* (Len, SubSeq, \o); a Python dict is the sequence of its (key, value)    *)
(* pairs in insertion order; a ListingRow dict is a record.                *)
(***************************************************************************)
EXTENDS Integers, Sequences, FiniteSets, TLC

VARIABLES
    stateFile,      \* content of STATE_FILE on disk
    pc,             \* position of the current run of main
    md,             \* the document returned by the fetch of this run
    latest_all,     \* main's latest_all
    prev_all,       \* main's prev_all
    idx,            \* position of the for loop over latest_all.items()
    changes,        \* main's changes list
    outcome,        \* how the run ended ("" while it is running)
    events,         \* external calls made by this run, in order
    fileAtStart,    \* content of STATE_FILE when this run started
    lastNotified,   \* per title, the row of the last delivered notification
    runs,           \* number of runs started so far
    norm,           \* harness applying strip_markdown
    slice           \* harness applying get_section_slice

mainVars == <<stateFile, pc, md, latest_all, prev_all, idx, changes, outcome,
              events, fileAtStart, lastNotified, runs>>
vars == <<stateFile, pc, md, latest_all, prev_all, idx, changes, outcome,
          events, fileAtStart, lastNotified, runs, norm, slice>>

(***************************************************************************)
(* Bounds of the model.                                                    *)
(***************************************************************************)
MaxRuns == 2        \* runs of main in one behaviour
MaxFrags == 5       \* fragments concatenated into a normalizer input
MaxLines == 3       \* lines of a document given to the section extractor

(***************************************************************************)
(* Configuration (stand-ins for the two long titles of the source).        *)
(***************************************************************************)
SECTION_TITLES == <<"AI Roles", "SWE Roles">>

None == [none |-> TRUE]     \* Python's None
EmptyDict == << >>          \* Python's {}

(***************************************************************************)
(* Python str primitives.                                                  *)
(***************************************************************************)
Chr(s, i) == SubSeq(s, i, i)

\* F applied to the value of v, v being evaluated once (a local variable)
Bind(v, F(_)) == CHOOSE r \in {F(x) : x \in {v}} : TRUE

Whitespace == {" ", "\n", "\t"}

UpperChars == "ABCDEFGHIJKLMNOPQRSTUVWXYZ"
LowerChars == "abcdefghijklmnopqrstuvwxyz"
DigitChars == "0123456789_"

InStr(c, s) == \E i \in 1..Len(s) : Chr(s, i) = c

\* \w of the re module, on the characters the model uses
IsWord(c) == InStr(c, UpperChars) \/ InStr(c, LowerChars) \/ InStr(c, DigitChars)

RECURSIVE lstrip(_)
lstrip(s) ==
    IF s # "" /\ Chr(s, 1) \in Whitespace THEN lstrip(Tail(s)) ELSE s

RECURSIVE rstrip(_)
rstrip(s) ==
    IF s # "" /\ Chr(s, Len(s)) \in Whitespace
    THEN rstrip(SubSeq(s, 1, Len(s) - 1))
    ELSE s

strip(s) == rstrip(lstrip(s))

\* str.strip("|"): removes every leading and trailing "|"
RECURSIVE strip_chars(_, _)
strip_chars(s, c) ==
    IF s # "" /\ Chr(s, 1) = c THEN strip_chars(Tail(s), c)
    ELSE IF s # "" /\ Chr(s, Len(s)) = c
         THEN strip_chars(SubSeq(s, 1, Len(s) - 1), c)
         ELSE s

startswith(s, p) == Len(s) >= Len(p) /\ SubSeq(s, 1, Len(p)) = p

lower_char(c) ==
    IF InStr(c, UpperChars)
    THEN Chr(LowerChars, CHOOSE i \in 1..Len(UpperChars) : Chr(UpperChars, i) = c)
    ELSE c

\* str.lower(), character by character (the string is halved at each step)
RECURSIVE lower(_)
lower(s) ==
    IF Len(s) = 0 THEN ""
    ELSE IF Len(s) = 1 THEN lower_char(s)
         ELSE LET h == Len(s) \div 2 IN
              lower(SubSeq(s, 1, h)) \o lower(SubSeq(s, h + 1, Len(s)))

\* sub in s
contains(s, sub) ==
    \E i \in 1..(Len(s) - Len(sub) + 1) : SubSeq(s, i, i + Len(sub) - 1) = sub

Min(S) == CHOOSE x \in S : \A y \in S : x <= y

\* the n-th smallest element of a set of integers
Nth(S, n) == CHOOSE x \in S : Cardinality({y \in S : y < x}) = n - 1

\* first index >= i at which s holds a character of the set cs, 0 when none
IndexFrom(s, cs, i) ==
    LET hits == {j \in i..Len(s) : Chr(s, j) \in cs} IN
    IF hits = {} THEN 0 ELSE Min(hits)

\* the pieces of s between the occurrences of the separator sep, the
\* piece after the last occurrence included
Pieces(s, sep) ==
    Bind({i \in 1..Len(s) : Chr(s, i) = sep}, LAMBDA at :
        LET k == Cardinality(at) IN
        [n \in 1..(k + 1) |->
            SubSeq(s, IF n = 1 THEN 1 ELSE Nth(at, n - 1) + 1,
                      IF n = k + 1 THEN Len(s) ELSE Nth(at, n) - 1)])

\* str.split(sep) for a one-character separator
split_on(s, sep) == Pieces(s, sep)

\* str.splitlines(), for documents whose only line terminator is "\n": no
\* line for an empty document, none after a final terminator
splitlines(s) ==
    IF s = "" THEN << >>
    ELSE IF Chr(s, Len(s)) = "\n"
         THEN Pieces(SubSeq(s, 1, Len(s) - 1), "\n")
         ELSE Pieces(s, "\n")

\* str.split(): the maximal runs of non-whitespace characters
split_ws(s) ==
    LET IsWs(i) == i < 1 \/ i > Len(s) \/ Chr(s, i) \in Whitespace
        starts == {i \in 1..Len(s) : ~IsWs(i) /\ IsWs(i - 1)}
        ends == {i \in 1..Len(s) : ~IsWs(i) /\ IsWs(i + 1)}
    IN  [n \in 1..Cardinality(starts) |-> SubSeq(s, Nth(starts, n), Nth(ends, n))]

\* sep.join(parts) (the list is halved at each step)
RECURSIVE join(_, _)
join(sep, parts) ==
    IF Len(parts) = 0 THEN ""
    ELSE IF Len(parts) = 1 THEN parts[1]
         ELSE LET h == Len(parts) \div 2 IN
              join(sep, SubSeq(parts, 1, h)) \o sep
              \o join(sep, SubSeq(parts, h + 1, Len(parts)))

(***************************************************************************)
(* strip_markdown (the normalizer).                                        *)
(***************************************************************************)
\* A match of \[([^\]]+)\]\([^)]+\) starting at i: <<index of "]", index of
\* the closing ")">>, or << >> when the pattern does not match at i.  Both
\* character classes are negated single characters, so the greedy runs end
\* at the first "]" and at the first ")" and backtracking finds nothing more.
LinkMatch(s, i) ==
    IF Chr(s, i) # "[" THEN << >>
    ELSE LET j == IndexFrom(s, {"]"}, i + 1) IN
         IF j = 0 \/ j = i + 1 \/ Chr(s, j + 1) # "(" THEN << >>
         ELSE LET k == IndexFrom(s, {")"}, j + 2) IN
              IF k = 0 \/ k = j + 2 THEN << >> ELSE <<j, k>>

\* re.sub(r"\[([^\]]+)\]\([^)]+\)", r"\1", s), scanning from index i:
\* leftmost non-overlapping matches, one pass
RECURSIVE SubLinks(_, _)
SubLinks(s, i) ==
    IF i > Len(s) THEN ""
    ELSE LET m == LinkMatch(s, i) IN
         IF m # << >>
         THEN SubSeq(s, i + 1, m[1] - 1) \o SubLinks(s, m[2] + 1)
         ELSE Chr(s, i) \o SubLinks(s, i + 1)

\* length of the leading run of characters that are neither \w nor "["
LeadingRun(s) ==
    LET stop == {i \in 1..Len(s) : IsWord(Chr(s, i)) \/ Chr(s, i) = "["} IN
    IF stop = {} THEN Len(s) ELSE Min(stop) - 1

\* re.sub(r"^[^\w\[]+\s*", "", s): the run holds every leading whitespace
\* character already, so \s* adds nothing
StripLeading(s) == SubSeq(s, LeadingRun(s) + 1, Len(s))

strip_markdown(text) == join(" ", split_ws(StripLeading(SubLinks(text, 1))))

(***************************************************************************)
(* Harness of the normalizer: an input, normalized once, then again.       *)
(***************************************************************************)
Fragments == {"[", "a", "](b)", "- ", " ", "!"}

RECURSIVE Concats(_)
Concats(n) ==
    IF n = 0 THEN {""}
    ELSE Concats(n - 1) \cup {s \o f : s \in Concats(n - 1), f \in Fragments}

NormInputs == Concats(MaxFrags)

NormIdle == [pc |-> "off", text |-> "", once |-> "", twice |-> ""]

NormInit == norm \in {[pc |-> "in", text |-> s, once |-> "", twice |-> ""] : s \in NormInputs}

NormOnce ==
    /\ norm.pc = "in"
    /\ norm' = [norm EXCEPT !.pc = "once", !.once = strip_markdown(norm.text)]
    /\ UNCHANGED <<mainVars, slice>>

NormTwice ==
    /\ norm.pc = "once"
    /\ norm' = [norm EXCEPT !.pc = "twice", !.twice = strip_markdown(norm.once)]
    /\ UNCHANGED <<mainVars, slice>>

(***************************************************************************)
(* get_section_slice (the section extractor).  The result is               *)
(* [ok |-> TRUE, text |-> the slice], or SectionNotFound for the           *)
(* RuntimeError "Could not find section header".                           *)
(***************************************************************************)
SectionNotFound == [ok |-> FALSE, text |-> "SectionNotFound"]

\* the condition of the generator that finds sec_idx
IsSectionHeader(ln, section_title) ==
    /\ startswith(strip(ln), "##")
    /\ contains(lower(ln), lower(section_title))

\* the condition of the generator that finds next_header
IsNextHeader(ln) == startswith(ln, "## ")

\* next(i for i in range(from, len(lines) + 1) if P(lines[i])), 0 when the
\* generator is exhausted (indices are 1-based here)
FirstSectionHeader(lines, section_title) ==
    LET hits == {i \in 1..Len(lines) : IsSectionHeader(lines[i], section_title)} IN
    IF hits = {} THEN 0 ELSE CHOOSE i \in hits : \A j \in hits : i <= j

FirstNextHeader(lines, sec_idx) ==
    LET hits == {i \in (sec_idx + 1)..Len(lines) : IsNextHeader(lines[i])} IN
    IF hits = {} THEN Len(lines) + 1 ELSE CHOOSE i \in hits : \A j \in hits : i <= j

get_section_slice(doc, section_title) ==
    Bind(splitlines(doc), LAMBDA lines :
    LET sec_idx == FirstSectionHeader(lines, section_title)
    IN  IF sec_idx = 0 THEN SectionNotFound
        ELSE [ok |-> TRUE,
              text |-> join("\n", SubSeq(lines, sec_idx,
                                         FirstNextHeader(lines, sec_idx) - 1))])

(***************************************************************************)
(* Harness of the section extractor: a document and a title, then the      *)
(* slice.                                                                  *)
(***************************************************************************)
SliceLines == {"## AI Roles", "## swe roles", " ## Other", "### AI Roles",
               "see AI Roles", "row"}

RECURSIVE LineSeqs(_)
LineSeqs(n) ==
    IF n = 0 THEN {<< >>}
    ELSE LineSeqs(n - 1) \cup {Append(ls, l) : ls \in LineSeqs(n - 1), l \in SliceLines}

SliceDocs == {join("\n", ls) : ls \in LineSeqs(MaxLines)}

SliceIdle == [pc |-> "off", md |-> "", title |-> "", result |-> None]

SliceInit ==
    slice \in {[pc |-> "in", md |-> d, title |-> SECTION_TITLES[t], result |-> None] :
               d \in SliceDocs, t \in DOMAIN SECTION_TITLES}

SliceApply ==
    /\ slice.pc = "in"
    /\ slice' = [slice EXCEPT !.pc = "done",
                              !.result = get_section_slice(slice.md, slice.title)]
    /\ UNCHANGED <<mainVars, norm>>

(***************************************************************************)
(* parse_html_table.  BeautifulSoup's tree is modelled by the flat         *)
(* sequence of tags and text runs of the snippet; an element extends from  *)
(* its start tag to the first matching end tag (documents of the model     *)
(* hold no nested element of the same name and close every element).       *)
(***************************************************************************)
\* name of the tag whose text between "<" and ">" is inner
TagName(inner) ==
    LET body == IF startswith(inner, "/") THEN Tail(inner) ELSE inner
        e == IndexFrom(body, Whitespace \cup {"/"}, 1)
    IN  lower(IF e = 0 THEN body ELSE SubSeq(body, 1, e - 1))

\* a tag starts at a "<" that has a ">" after it and lies in no earlier tag,
\* and ends at the first ">" after it
\* the least element of S above i, 0 when there is none
NextIn(S, i) ==
    LET later == {k \in S : k > i} IN IF later = {} THEN 0 ELSE Min(later)

TagStarts(s) ==
    Bind({i \in 1..Len(s) : Chr(s, i) = "<"}, LAMBDA lt :
    Bind({i \in 1..Len(s) : Chr(s, i) = ">"}, LAMBDA gt :
        {i \in lt : /\ NextIn(gt, i) # 0
                    /\ \A j \in lt : j < i => NextIn(gt, j) < i}))

\* the token that starts at p, tags and starts being the starts of the tags
\* and of all tokens
TokenAt(s, tags, starts, p) ==
    IF p \in tags
    THEN LET inner == SubSeq(s, p + 1, IndexFrom(s, {">"}, p) - 1) IN
         [kind |-> IF startswith(inner, "/") THEN "close" ELSE "open",
          val |-> TagName(inner)]
    ELSE LET q == NextIn(starts, p) IN
         [kind |-> "text", val |-> SubSeq(s, p, IF q = 0 THEN Len(s) ELSE q - 1)]

\* the tags of s and the text runs between them, in document order
Tokens(s) ==
    Bind(TagStarts(s), LAMBDA tags :
    Bind((tags \cup {IndexFrom(s, {">"}, i) + 1 : i \in tags} \cup {1})
             \cap (1..Len(s)), LAMBDA starts :
        [n \in 1..Cardinality(starts) |-> TokenAt(s, tags, starts, Nth(starts, n))]))

\* tag.find(name) among the tokens strictly between lo and hi: the index of
\* the first start tag of that name, 0 when there is none
FindTag(toks, name, lo, hi) ==
    LET hits == {i \in (lo + 1)..(hi - 1) :
                    toks[i].kind = "open" /\ toks[i].val = name} IN
    IF hits = {} THEN 0 ELSE CHOOSE i \in hits : \A j \in hits : i <= j

\* index of the end tag closing the element opened at i, hi when unclosed
ElementEnd(toks, i, hi) ==
    LET hits == {j \in (i + 1)..(hi - 1) :
                    toks[j].kind = "close" /\ toks[j].val = toks[i].val} IN
    IF hits = {} THEN hi ELSE CHOOSE j \in hits : \A k \in hits : j <= k

\* tag.find_all(name) between lo and hi, in document order
RECURSIVE FindAllTags(_, _, _, _)
FindAllTags(toks, name, lo, hi) ==
    LET i == FindTag(toks, name, lo, hi) IN
    IF i = 0 THEN << >> ELSE <<i>> \o FindAllTags(toks, name, i, hi)

\* the stripped, non-empty text runs between lo and hi
RECURSIVE TextRuns(_, _, _)
TextRuns(toks, lo, hi) ==
    IF lo + 1 >= hi THEN << >>
    ELSE LET t == toks[lo + 1]
             here == IF t.kind = "text" /\ strip(t.val) # ""
                     THEN <<strip(t.val)>> ELSE << >>
         IN  here \o TextRuns(toks, lo + 1, hi)

\* tag.get_text(" ", strip=True) of the element opened at i
get_text(toks, i, hi) == join(" ", TextRuns(toks, i, ElementEnd(toks, i, hi)))

ListingRow(company, role, location) ==
    [company |-> strip_markdown(company),
     role |-> strip_markdown(role),
     location |-> strip_markdown(location)]

parse_html_table(html_snippet) ==
    Bind(Tokens(html_snippet), LAMBDA toks :
    LET tbl == FindTag(toks, "table", 0, Len(toks) + 1)
    IN  IF tbl = 0 THEN None
        ELSE
        LET tblEnd == ElementEnd(toks, tbl, Len(toks) + 1)
            body == FindTag(toks, "tbody", tbl, tblEnd)
            tbody == IF body # 0 THEN body ELSE tbl
            tbodyEnd == IF body # 0 THEN ElementEnd(toks, body, tblEnd) ELSE tblEnd
            first_row == FindTag(toks, "tr", tbody, tbodyEnd)
        IN  IF first_row = 0 THEN None
            ELSE
            LET rowEnd == ElementEnd(toks, first_row, tbodyEnd)
                tds == FindAllTags(toks, "td", first_row, rowEnd)
            IN  IF Len(tds) < 3 THEN None
                ELSE ListingRow(get_text(toks, tds[1], rowEnd),
                                get_text(toks, tds[2], rowEnd),
                                get_text(toks, tds[3], rowEnd)))

(***************************************************************************)
(* parse_markdown_table.                                                   *)
(***************************************************************************)
\* re.match(r"^\s*\|[-:\s|]+\|\s*$", ln): between the optional outer
\* whitespace, a "|", one or more of - : | and whitespace, and a "|"
IsSeparatorRow(ln) ==
    LET t == strip(ln) IN
    /\ Len(t) >= 3
    /\ Chr(t, 1) = "|"
    /\ Chr(t, Len(t)) = "|"
    /\ \A i \in 2..(Len(t) - 1) : Chr(t, i) \in {"-", ":", "|"} \cup Whitespace

\* [c.strip() for c in row.strip().strip("|").split("|")]
RECURSIVE StripEach(_)
StripEach(cs) ==
    IF cs = << >> THEN << >> ELSE <<strip(Head(cs))>> \o StripEach(Tail(cs))

split_cols(row) == StripEach(split_on(strip_chars(strip(row), "|"), "|"))

parse_markdown_table(section_text) ==
    Bind(splitlines(section_text), LAMBDA sec_lines :
    LET hits == {i \in 1..(Len(sec_lines) - 1) :
                    /\ startswith(lstrip(sec_lines[i]), "|")
                    /\ IsSeparatorRow(sec_lines[i + 1])}
    IN  IF hits = {} THEN None
        ELSE
        LET start == CHOOSE i \in hits : \A j \in hits : i <= j IN
        IF start + 2 > Len(sec_lines) THEN None
        ELSE
        LET cols == split_cols(sec_lines[start + 2]) IN
        IF Len(cols) < 3 THEN None
        ELSE ListingRow(cols[1], cols[2], cols[3]))

(***************************************************************************)
(* get_latest_internships, applied to the text of the fetched document.    *)
(* The result is [ok |-> TRUE, value |-> all_results] or [ok |-> FALSE,    *)
(* err |-> the RuntimeError raised].                                       *)
(***************************************************************************)
Truthy(x) == x # None /\ x # EmptyDict

\* PyOr trying its second operand first
PyOr_MarkdownFirst(a, b) == Bind(b, LAMBDA x : IF Truthy(x) THEN x ELSE a)

\* a or b
PyOr(a, b) == Bind(a, LAMBDA x : IF Truthy(x) THEN x ELSE b)

\* SectionLoop catching the RuntimeError of get_section_slice per title
RECURSIVE SectionLoop_SkipsMissing(_, _, _)
SectionLoop_SkipsMissing(doc, i, all_results) ==
    IF i > Len(SECTION_TITLES)
    THEN IF all_results = << >>
         THEN [ok |-> FALSE, err |-> "NoTablesFound"]
         ELSE [ok |-> TRUE, value |-> all_results]
    ELSE LET title == SECTION_TITLES[i] IN
         Bind(get_section_slice(doc, title), LAMBDA sec :
             IF ~sec.ok THEN SectionLoop_SkipsMissing(doc, i + 1, all_results)
             ELSE Bind(PyOr(parse_html_table(sec.text),
                            parse_markdown_table(sec.text)), LAMBDA result :
                      IF Truthy(result)
                      THEN SectionLoop_SkipsMissing(doc, i + 1,
                                       Append(all_results, <<title, result>>))
                      ELSE SectionLoop_SkipsMissing(doc, i + 1, all_results)))

\* the body of the for loop, from the i-th configured title on
RECURSIVE SectionLoop(_, _, _)
SectionLoop(doc, i, all_results) ==
    IF i > Len(SECTION_TITLES)
    THEN IF all_results = << >>
         THEN [ok |-> FALSE, err |-> "NoTablesFound"]
         ELSE [ok |-> TRUE, value |-> all_results]
    ELSE LET title == SECTION_TITLES[i] IN
         Bind(get_section_slice(doc, title), LAMBDA sec :
             IF ~sec.ok THEN [ok |-> FALSE, err |-> "SectionNotFound"]
             ELSE Bind(PyOr(parse_html_table(sec.text),
                            parse_markdown_table(sec.text)), LAMBDA result :
                      IF Truthy(result)
                      THEN SectionLoop(doc, i + 1,
                                       Append(all_results, <<title, result>>))
                      ELSE SectionLoop(doc, i + 1, all_results)))

get_latest_internships(doc) == SectionLoop(doc, 1, << >>)

(***************************************************************************)
(* Documents the fetch can return: a preamble that mentions a title in     *)
(* body text, then for each configured title one variant of its section.   *)
(***************************************************************************)
Row1 == <<"Acme", "SWE", "NYC">>
Row2 == <<"Bolt", "ML", "SF">>

Preamble == "# Internships\nsee AI Roles and SWE Roles below\n"

HtmlTable(r) ==
    "<table>\n<thead><tr><th>Company</th><th>Role</th><th>Location</th></tr></thead>\n"
    \o "<tbody>\n<tr><td><b>" \o r[1] \o "</b></td><td>" \o r[2]
    \o "</td><td> " \o r[3] \o "</td></tr>\n</tbody>\n</table>\n"

MdTable(r) ==
    "| Company | Role | Location |\n|---|:-:|---|\n| [" \o r[1] \o "](u) | "
    \o r[2] \o " | - " \o r[3] \o " |\n"

HeaderOnlyTable == "<table><tr><th>Company</th><th>Role</th></tr></table>\n"

SectionVariants(title) ==
    LET h == "## " \o title \o "\n" IN
    { "",                                        \* no heading for the title
      h \o "Nothing yet.\n",                     \* heading, no table
      h \o HtmlTable(Row1),
      h \o HtmlTable(Row2),
      h \o MdTable(Row1),
      h \o HeaderOnlyTable \o MdTable(Row2),     \* HTML table without 3 cells
      h \o HtmlTable(Row1) \o MdTable(Row2) }    \* both encodings present

Docs == {Preamble \o a \o b : a \in SectionVariants(SECTION_TITLES[1]),
                              b \in SectionVariants(SECTION_TITLES[2])}

\* get_latest_internships on every document, evaluated once
LatestOf == [d \in Docs |-> get_latest_internships(d)]

(***************************************************************************)
(* The state file and the dicts of main.                                   *)
(***************************************************************************)
Absent == [kind |-> "absent"]       \* open() raises FileNotFoundError
Corrupt == [kind |-> "corrupt"]     \* json.load raises

json_dump(obj) == [kind |-> "json", obj |-> obj]
json_load(file) == file.obj

\* d.get(key, default) on a dict held as its sequence of (key, value) pairs
DictGet(d, key, default) ==
    IF \E i \in DOMAIN d : d[i][1] = key
    THEN d[CHOOSE i \in DOMAIN d : d[i][1] = key][2]
    ELSE default

Keys(d) == {d[i][1] : i \in DOMAIN d}

\* no document fetched yet in this run (every document of the model is non-empty)
NoDoc == ""

Titles == {SECTION_TITLES[i] : i \in DOMAIN SECTION_TITLES}

(***************************************************************************)
(* One run of main, one action per external call or loop iteration.        *)
(***************************************************************************)
RunStart ==
    /\ pc = "start"
    /\ md = NoDoc
    /\ latest_all = << >>
    /\ prev_all = << >>
    /\ idx = 1
    /\ changes = << >>
    /\ outcome = ""
    /\ events = << >>

MainInit ==
    /\ RunStart
    /\ stateFile \in {Absent, Corrupt}
    /\ fileAtStart = stateFile
    /\ lastNotified = [t \in Titles |-> None]
    /\ runs = 1

MainOff ==
    /\ RunStart
    /\ stateFile = Absent
    /\ fileAtStart = Absent
    /\ lastNotified = [t \in Titles |-> None]
    /\ runs = 1

\* requests.get returns doc; the sections are sliced and parsed; an
\* exception of get_latest_internships is printed and re-raised
FetchOk(doc) ==
    /\ pc = "start"
    /\ md' = doc
    /\ events' = Append(events, <<"fetch">>)
    /\ LET res == LatestOf[doc] IN
       IF res.ok
       THEN /\ latest_all' = res.value
            /\ pc' = "load"
            /\ outcome' = outcome
       ELSE /\ latest_all' = latest_all
            /\ pc' = "done"
            /\ outcome' = res.err
    /\ UNCHANGED <<stateFile, prev_all, idx, changes, fileAtStart, lastNotified,
                   runs, norm, slice>>

\* requests.get raises (transport error or timeout)
FetchFail ==
    /\ pc = "start"
    /\ events' = Append(events, <<"fetch">>)
    /\ pc' = "done"
    /\ outcome' = "TransportError"
    /\ UNCHANGED <<stateFile, md, latest_all, prev_all, idx, changes, fileAtStart,
                   lastNotified, runs, norm, slice>>

\* open(STATE_FILE) and json.load; only FileNotFoundError is caught
LoadState ==
    /\ pc = "load"
    /\ events' = Append(events, <<"read">>)
    /\ IF stateFile = Corrupt
       THEN /\ pc' = "done"
            /\ outcome' = "StateReadError"
            /\ prev_all' = prev_all
       ELSE /\ pc' = "loop"
            /\ outcome' = outcome
            /\ prev_all' = IF stateFile = Absent THEN << >> ELSE json_load(stateFile)
    /\ UNCHANGED <<stateFile, md, latest_all, idx, changes, fileAtStart,
                   lastNotified, runs, norm, slice>>

\* latest != prev, with prev = prev_all.get(section, {})
Differs(section, latest) == latest # DictGet(prev_all, section, EmptyDict)

\* a loop iteration whose section is unchanged
SkipUnchanged ==
    /\ pc = "loop"
    /\ idx <= Len(latest_all)
    /\ ~Differs(latest_all[idx][1], latest_all[idx][2])
    /\ idx' = idx + 1
    /\ UNCHANGED <<stateFile, pc, md, latest_all, prev_all, changes, outcome,
                   events, fileAtStart, lastNotified, runs, norm, slice>>

\* SendOk writing the state file after every notification
SendOk_WritesThrough ==
    /\ pc = "loop"
    /\ idx <= Len(latest_all)
    /\ latest_all[idx][2] # DictGet(prev_all, latest_all[idx][1], EmptyDict)
    /\ events' = events \o <<<<"send", latest_all[idx][1], latest_all[idx][2], TRUE>>,
                             <<"write">>>>
    /\ stateFile' = json_dump(latest_all)
    /\ lastNotified' = [lastNotified EXCEPT ![latest_all[idx][1]] = latest_all[idx][2]]
    /\ changes' = Append(changes, latest_all[idx][1])
    /\ idx' = idx + 1
    /\ UNCHANGED <<pc, md, latest_all, prev_all, outcome, fileAtStart,
                   runs, norm, slice>>

\* a loop iteration whose send_pushover returns
SendOk ==
    /\ pc = "loop"
    /\ idx <= Len(latest_all)
    /\ Differs(latest_all[idx][1], latest_all[idx][2])
    /\ events' = Append(events, <<"send", latest_all[idx][1], latest_all[idx][2], TRUE>>)
    /\ lastNotified' = [lastNotified EXCEPT ![latest_all[idx][1]] = latest_all[idx][2]]
    /\ changes' = Append(changes, latest_all[idx][1])
    /\ idx' = idx + 1
    /\ UNCHANGED <<stateFile, pc, md, latest_all, prev_all, outcome, fileAtStart,
                   runs, norm, slice>>

\* SendFail with the exception swallowed: the loop goes on
SendFail_Swallowed ==
    /\ pc = "loop"
    /\ idx <= Len(latest_all)
    /\ latest_all[idx][2] # DictGet(prev_all, latest_all[idx][1], EmptyDict)
    /\ events' = Append(events, <<"send", latest_all[idx][1], latest_all[idx][2], FALSE>>)
    /\ idx' = idx + 1
    /\ UNCHANGED <<stateFile, pc, md, latest_all, prev_all, changes, outcome,
                   fileAtStart, lastNotified, runs, norm, slice>>

\* a loop iteration whose send_pushover raises: requests.post raises, or
\* raise_for_status raises on a non-success status
SendFail ==
    /\ pc = "loop"
    /\ idx <= Len(latest_all)
    /\ Differs(latest_all[idx][1], latest_all[idx][2])
    /\ events' = Append(events, <<"send", latest_all[idx][1], latest_all[idx][2], FALSE>>)
    /\ pc' = "done"
    /\ outcome' = "DeliveryError"
    /\ UNCHANGED <<stateFile, md, latest_all, prev_all, idx, changes, fileAtStart,
                   lastNotified, runs, norm, slice>>

\* Persist without the test of changes
Persist_AlwaysWrites ==
    /\ pc = "loop"
    /\ idx > Len(latest_all)
    /\ stateFile' = json_dump(latest_all)
    /\ events' = Append(events, <<"write">>)
    /\ pc' = "done"
    /\ outcome' = "ok"
    /\ UNCHANGED <<md, latest_all, prev_all, idx, changes, fileAtStart,
                   lastNotified, runs, norm, slice>>

\* Persist writing the entries of the changed sections only
Persist_ChangedOnly ==
    /\ pc = "loop"
    /\ idx > Len(latest_all)
    /\ IF changes # << >>
       THEN /\ stateFile' = json_dump(SelectSeq(latest_all,
                                LAMBDA p : \E i \in DOMAIN changes : changes[i] = p[1]))
            /\ events' = Append(events, <<"write">>)
       ELSE UNCHANGED <<stateFile, events>>
    /\ pc' = "done"
    /\ outcome' = "ok"
    /\ UNCHANGED <<md, latest_all, prev_all, idx, changes, fileAtStart,
                   lastNotified, runs, norm, slice>>

\* after the loop: if changes, write latest_all to STATE_FILE
Persist ==
    /\ pc = "loop"
    /\ idx > Len(latest_all)
    /\ IF changes # << >>
       THEN /\ stateFile' = json_dump(latest_all)
            /\ events' = Append(events, <<"write">>)
       ELSE UNCHANGED <<stateFile, events>>
    /\ pc' = "done"
    /\ outcome' = "ok"
    /\ UNCHANGED <<md, latest_all, prev_all, idx, changes, fileAtStart,
                   lastNotified, runs, norm, slice>>

\* the external scheduler starts the next run
NextRun ==
    /\ pc = "done"
    /\ runs < MaxRuns
    /\ runs' = runs + 1
    /\ pc' = "start"
    /\ md' = NoDoc
    /\ latest_all' = << >>
    /\ prev_all' = << >>
    /\ idx' = 1
    /\ changes' = << >>
    /\ outcome' = ""
    /\ events' = << >>
    /\ fileAtStart' = stateFile
    /\ UNCHANGED <<stateFile, lastNotified, norm, slice>>

Init == MainInit /\ norm = NormIdle /\ slice = SliceIdle

Next ==
    \/ \E doc \in Docs : FetchOk(doc)
    \/ FetchFail
    \/ LoadState
    \/ SkipUnchanged
    \/ SendOk
    \/ SendFail
    \/ Persist
    \/ NextRun

Spec == Init /\ [][Next]_vars

\* the normalizer alone
InitNorm == MainOff /\ NormInit /\ slice = SliceIdle
NextNorm == NormOnce \/ NormTwice
SpecNorm == InitNorm /\ [][NextNorm]_vars

\* the section extractor alone
InitSlice == MainOff /\ SliceInit /\ norm = NormIdle
NextSlice == SliceApply
SpecSlice == InitSlice /\ [][NextSlice]_vars

(***************************************************************************)
(* Vocabulary of the properties.                                           *)
(***************************************************************************)
\* the snapshot as it was persisted when the run started
Prior == IF fileAtStart.kind = "json" THEN fileAtStart.obj ELSE << >>

HasEvent(type) == \E i \in DOMAIN events : events[i][1] = type
Count(type) == Cardinality({i \in DOMAIN events : events[i][1] = type})
SendEvents == SelectSeq(events, LAMBDA e : e[1] = "send")

\* the fetch succeeded, the sections were parsed and the snapshot was loaded
Loaded == pc = "loop" \/ (pc = "done" /\ outcome \in {"ok", "DeliveryError"})

\* every latest row equals the prior snapshot's entry for its title
NothingNew ==
    \A i \in DOMAIN latest_all :
        DictGet(Prior, latest_all[i][1], EmptyDict) = latest_all[i][2]

\* the entries of latest_all that differ from the prior snapshot, in order
NewEntries ==
    SelectSeq(latest_all, LAMBDA p : p[2] # DictGet(Prior, p[1], EmptyDict))

TitleIndex(t) == CHOOSE i \in DOMAIN SECTION_TITLES : SECTION_TITLES[i] = t

\* per document: the configured titles that some heading line matches
HeadingTitles ==
    [d \in Docs |->
        {t \in Titles : \E i \in DOMAIN splitlines(d) :
                            IsSectionHeader(splitlines(d)[i], t)}]

\* per document and title with a heading: the HTML parser's row for the
\* title's section, the markdown parser's row when the HTML parser has none
SectionRows ==
    [d \in Docs |->
        [t \in HeadingTitles[d] |->
            LET text == get_section_slice(d, t).text
                html == parse_html_table(text)
            IN  IF html # None THEN html ELSE parse_markdown_table(text)]]

ParsedTitles(d) == {t \in HeadingTitles[d] : SectionRows[d][t] # None}

(***************************************************************************)
(* C1: when every latest row is structurally equal to the prior            *)
(* snapshot's entry for its title, the run sends no notification and does  *)
(* not write the snapshot file.                                            *)
(***************************************************************************)
C1_NoChangeNoEffect ==
    (Loaded /\ NothingNew) =>
        /\ ~HasEvent("send")
        /\ ~HasEvent("write")
        /\ stateFile = fileAtStart

C1_Witness ==
    /\ pc = "done" /\ outcome = "ok"
    /\ Len(latest_all) = 2
    /\ NothingNew

(***************************************************************************)
(* C2: in a run that completes, the notifications sent are exactly one per *)
(* title whose latest row differs from prevSnapshot.get(title, {}), in     *)
(* configured order, and if any was sent the persisted snapshot maps every *)
(* parsed title to its latest row.                                         *)
(***************************************************************************)
C2_NotifyIffChanged ==
    (pc = "done" /\ outcome = "ok") =>
        /\ SendEvents = [i \in DOMAIN NewEntries |->
                            <<"send", NewEntries[i][1], NewEntries[i][2], TRUE>>]
        /\ \A i, j \in DOMAIN SendEvents :
              i < j => TitleIndex(SendEvents[i][2]) < TitleIndex(SendEvents[j][2])
        /\ SendEvents # << >> =>
              /\ stateFile.kind = "json"
              /\ \A i \in DOMAIN latest_all :
                    DictGet(stateFile.obj, latest_all[i][1], EmptyDict) = latest_all[i][2]

C2_Witness ==
    /\ pc = "done" /\ outcome = "ok"
    /\ Len(latest_all) = 2
    /\ Len(SendEvents) = 1
    /\ Prior # << >>

(***************************************************************************)
(* C3: when a title changed, an entry of the prior snapshot whose title    *)
(* was not processed in this run is still present, with its prior value,   *)
(* in the persisted snapshot.                                              *)
(***************************************************************************)
C3_UnprocessedEntriesKept ==
    (pc = "done" /\ outcome = "ok" /\ changes # << >>) =>
        \A i \in DOMAIN Prior :
            Prior[i][1] \notin Keys(latest_all) =>
                /\ stateFile.kind = "json"
                /\ DictGet(stateFile.obj, Prior[i][1], EmptyDict) = Prior[i][2]

(***************************************************************************)
(* C4: at the end of every run the persisted snapshot holds, for each      *)
(* section for which a notification has ever been sent, exactly the row    *)
(* carried by the most recent notification sent for that section.  (No     *)
(* notification is ever sent in a behaviour that starts from an            *)
(* unreadable file, so a violation starts from an absent one.)             *)
(***************************************************************************)
C4_SnapshotIsLastNotified ==
    pc = "done" =>
        \A t \in Titles :
            lastNotified[t] # None =>
                /\ stateFile.kind = "json"
                /\ DictGet(stateFile.obj, t, EmptyDict) = lastNotified[t]

(***************************************************************************)
(* C5: a failed delivery ends the run with a failure outcome: it is the    *)
(* last external call of the run (no later notification, no write) and the *)
(* snapshot file is as it was before the run, also when earlier            *)
(* notifications of the run were delivered.                                *)
(***************************************************************************)
C5_DeliveryFailureAborts ==
    \A i \in DOMAIN events :
        (events[i][1] = "send" /\ ~events[i][4]) =>
            /\ i = Len(events)
            /\ pc = "done"
            /\ outcome = "DeliveryError"
            /\ stateFile = fileAtStart

C5_Witness ==
    /\ Len(events) = 4
    /\ events[3][1] = "send" /\ events[3][4]
    /\ events[4][1] = "send" /\ ~events[4][4]
    /\ fileAtStart.kind = "json"

(***************************************************************************)
(* C6: if a configured title has no matching heading in the fetched        *)
(* document, the run aborts with SectionNotFound, sends nothing and does   *)
(* not write the snapshot, whatever the other sections hold.               *)
(***************************************************************************)
C6_MissingHeadingAborts ==
    (md # NoDoc /\ HeadingTitles[md] # Titles) =>
        /\ pc = "done"
        /\ outcome = "SectionNotFound"
        /\ events = << <<"fetch">> >>
        /\ stateFile = fileAtStart

\* the first title has a heading and a row that differs from the snapshot,
\* the second title has no heading
C6_Witness ==
    /\ md # NoDoc
    /\ HeadingTitles[md] = {SECTION_TITLES[1]}
    /\ SectionRows[md][SECTION_TITLES[1]] # None
    /\ SectionRows[md][SECTION_TITLES[1]] # DictGet(Prior, SECTION_TITLES[1], EmptyDict)
    /\ Prior # << >>
    /\ outcome = "SectionNotFound"

(***************************************************************************)
(* C7: when every configured title has a heading, latest_all maps exactly  *)
(* the titles for which the HTML parser or, when it returns none, the      *)
(* markdown parser yields a row, to the HTML parser's row when there is    *)
(* one and to the markdown parser's row otherwise; a title with no row is  *)
(* skipped; the call fails with NoTablesFound iff no title has a row.      *)
(***************************************************************************)
C7_LatestIsFirstParserRow ==
    (md # NoDoc /\ HeadingTitles[md] = Titles) =>
        IF ParsedTitles(md) = {}
        THEN pc = "done" /\ outcome = "NoTablesFound"
        ELSE /\ outcome \notin {"NoTablesFound", "SectionNotFound"}
             /\ Keys(latest_all) = ParsedTitles(md)
             /\ Len(latest_all) = Cardinality(ParsedTitles(md))
             /\ \A t \in ParsedTitles(md) :
                    DictGet(latest_all, t, EmptyDict) = SectionRows[md][t]

\* the first title's section holds both encodings with different rows, the
\* second title's section has no table and is skipped
C7_Witness ==
    /\ md # NoDoc
    /\ HeadingTitles[md] = Titles
    /\ ParsedTitles(md) = {SECTION_TITLES[1]}
    /\ LET text == get_section_slice(md, SECTION_TITLES[1]).text IN
       /\ parse_html_table(text) # None
       /\ parse_markdown_table(text) # None
       /\ parse_html_table(text) # parse_markdown_table(text)
    /\ pc = "load"

(***************************************************************************)
(* C8, as stated: the snapshot is read once at the start of the run,       *)
(* before the document fetch and before any send; the document is fetched  *)
(* exactly once, before any send; at most N notifications are sent; the    *)
(* snapshot is written at most once, only after the last send.             *)
(***************************************************************************)
SendsAndWriteInOrder ==
    /\ Count("send") <= Len(SECTION_TITLES)
    /\ \A i, j \in DOMAIN events :
          (events[i][1] = "fetch" /\ events[j][1] = "send") => i < j
    /\ Count("write") <= 1
    /\ \A i \in DOMAIN events : events[i][1] = "write" => i = Len(events)

C9_Idempotent == norm.pc = "twice" => norm.twice = norm.once

(***************************************************************************)
(* C10: the slice starts at the first level-2 heading line that contains   *)
(* the title (case-insensitive), runs up to but excluding the next level-2 *)
(* heading line (to the end of the document when there is none), and the   *)
(* call fails with SectionNotFound exactly when no level-2 heading line    *)
(* contains the title.                                                     *)
(***************************************************************************)
\* a level-2 heading line: "##", not "###", then whitespace or the line's
\* end, after optional indentation
IsLevel2Heading(ln) ==
    LET t == lstrip(ln) IN
    startswith(t, "##") /\ (Len(t) = 2 \/ Chr(t, 3) \in Whitespace)

C10_SliceIsLevel2Section ==
    slice.pc = "done" =>
        LET lines == splitlines(slice.md)
            heads == {i \in DOMAIN lines : IsLevel2Heading(lines[i])}
            match == {i \in heads : contains(lower(lines[i]), lower(slice.title))}
        IN  IF match = {} THEN slice.result = SectionNotFound
            ELSE LET s == Min(match)
                     e == NextIn(heads, s)
                 IN  slice.result =
                        [ok |-> TRUE,
                         text |-> join("\n", SubSeq(lines, s,
                                      IF e = 0 THEN Len(lines) ELSE e - 1))]

====
